---- MODULE Spec2Model ----
(***************************************************************************)
(* Actuarial premium calculator (src/app.py).                              *)
(*                                                                         *)
(* A Streamlit script: every user interaction re-executes main() from top  *)
(* to bottom.  One action of this model is one interaction together with   *)
(* the whole script run it triggers.  The module can also be imported      *)
(* (line 205 guards main() with __name__ == "__main__"), in which case     *)
(* only direct calls of its functions happen.                              *)
(*                                                                         *)
(* Money is fixed point: USD and UGX amounts are integers counting         *)
(* thousandths of the currency unit; what is displayed is rounded to       *)
(* cents (USD) and to whole units (UGX) as the format strings do.          *)
(***************************************************************************)
EXTENDS Integers, Sequences, FiniteSets

(* ---------------- program constants ---------------- *)

EXCHANGE_RATE == 3700

AGE_MIN == 18

AGE_MAX == 80

AGE_DEFAULT == 40

VEHICLE_MIN == 1

VEHICLE_MAX == 20

VEHICLE_DEFAULT == 5

STEP == 1

LOCATION_OPTIONS == <<"Urban", "Suburban", "Rural">>

DEFAULT_PATH == "gbm_auto_model.pkl"

(* ---------------- bounds of the model ---------------- *)

\* script runs explored per process
MaxRuns == 5

\* how far beyond a widget's limits the typed values range
Overshoot == 2

(* ---------------- environment ---------------- *)

\* what joblib.load finds at a path: no file, an unreadable file, or a
\* pickled predictor of one of four behaviours
Artifacts == {"missing", "corrupt", "const", "linear", "picky", "mismatch"}

Paths == {DEFAULT_PATH}

NoModel == [kind |-> "none", id |-> 0]

NoFrame == [columns |-> <<>>, rows |-> <<>>]

NoArgs == [age |-> 0, vehicle_age |-> 0, location |-> "unset"]

NoResult == [shown |-> FALSE, usd |-> 0, ugx |-> 0, usd_text |-> 0, ugx_text |-> 0]

NoCards == [shown |-> FALSE, age |-> 0, vehicle_age |-> 0, location |-> "unset"]

\* values a user may type into the two number inputs
TypedAges == {AGE_MIN - Overshoot, AGE_MIN - 1, AGE_MIN, AGE_MIN + 1, AGE_DEFAULT,
              AGE_MAX - 1, AGE_MAX, AGE_MAX + 1, AGE_MAX + Overshoot}

TypedVehicleAges == {VEHICLE_MIN - Overshoot, VEHICLE_MIN - 1, VEHICLE_MIN, VEHICLE_MIN + 1,
                     VEHICLE_DEFAULT, VEHICLE_MAX - 1, VEHICLE_MAX, VEHICLE_MAX + 1,
                     VEHICLE_MAX + Overshoot}

\* arguments of direct calls of format_input_data (any caller, any value)
DirectAges == {0, AGE_MIN - 1, AGE_MIN, AGE_DEFAULT, AGE_MAX, AGE_MAX + 1}

DirectVehicleAges == {0, VEHICLE_MIN, VEHICLE_DEFAULT, VEHICLE_MAX, VEHICLE_MAX + 1}

DirectLocations == {"Urban", "Suburban", "Rural", "Coastal", "urban", ""}

VARIABLES
    mode,            \* "app": streamlit runs the script; "import": functions called directly
    disk,            \* Paths -> Artifacts: what is stored at each path; the artifact
                     \* is taken not to change while the process runs
    cache,           \* st.cache_resource: Paths -> cached return value of load_model
    joblibLoads,     \* Paths -> how often joblib.load was executed
    loadCalls,       \* Paths -> how often load_model was called
    returned,        \* Paths -> set of instances load_model has returned
    runs,            \* script runs so far
    rendered,        \* the input widgets are on the page
    age_input,       \* widget state, key "age_input"
    vehicle_input,   \* widget state, key "vehicle_input"
    location_input,  \* widget state, key "location_input"
    calculate_btn,   \* value st.button returned in the last run
    outcome,         \* how the last run ended
    calls,           \* the calls the last run (or direct call) made, in order
    encArgs,         \* arguments of the last format_input_data call
    input_df,        \* frame the last format_input_data call returned
    cards,           \* input summary cards on screen
    result,          \* premium result on screen
    error,           \* error element on screen
    failedOnce,      \* history: a load_model call has failed in this process
    hadInferenceError \* history: a submission ended in a rejected predict

vars == <<mode, disk, cache, joblibLoads, loadCalls, returned, runs, rendered,
          age_input, vehicle_input, location_input, calculate_btn, outcome, calls,
          encArgs, input_df, cards, result, error, failedOnce, hadInferenceError>>

(* ---------------- load_model (lines 91-108) ---------------- *)

\* joblib.load(model_path), line 102: raises FileNotFoundError when nothing is at
\* the path, some other Exception when the file cannot be unpickled, and
\* otherwise returns a freshly built object (a new identity on every execution)
joblib_load(path, dsk, n) ==
    IF dsk[path] = "missing" THEN [exc |-> "FileNotFoundError", obj |-> NoModel]
    ELSE IF dsk[path] = "corrupt" THEN [exc |-> "Exception", obj |-> NoModel]
    ELSE [exc |-> "none", obj |-> [kind |-> dsk[path], id |-> n + 1]]

\* the except clauses, lines 103-108, in their order
except_clause_generic(exc) == "load_error"

except_clause(exc) ==
    IF exc = "FileNotFoundError" THEN "not_found" ELSE "load_error"

\* st.stop() at lines 105 and 108: the run ends inside load_model
st_stop_missing_on_generic(how) == how = "not_found"

st_stop(how) == how \in {"not_found", "load_error"}

\* the body of load_model, lines 101-108
load_model_body(path, dsk, n) ==
    LET r == joblib_load(path, dsk, n) IN
    IF r.exc = "none"
    THEN [how |-> "returned", model |-> r.obj, stopped |-> FALSE]
    ELSE LET how == except_clause(r.exc) IN
         \* without st.stop() the function would fall off its end and return None
         [how |-> how, model |-> NoModel, stopped |-> st_stop(how)]

\* the lookup st.cache_resource does before running the body, line 91
cache_lookup_off(cch, path) == NoModel

cache_lookup(cch, path) == cch[path]

\* load_model as decorated: a value the body returned is stored and handed out
\* again; a run that ends in st.stop() stores nothing
load_model(path, cch, dsk, n) ==
    LET hit == cache_lookup(cch, path) IN
    IF hit # NoModel
    THEN [how |-> "returned", model |-> hit, stopped |-> FALSE,
          executed |-> FALSE, cache |-> cch]
    ELSE LET r == load_model_body(path, dsk, n) IN
         [how |-> r.how, model |-> r.model, stopped |-> r.stopped,
          executed |-> TRUE,
          cache |-> IF r.stopped THEN cch ELSE [cch EXCEPT ![path] = r.model]]

(* ---------------- format_input_data (lines 110-130) ---------------- *)

\* 1 if location == category else 0, lines 123-125
one_hot_default_urban(location, category) ==
    IF location = category THEN 1
    ELSE IF category = "Urban" /\ location \notin {"Rural", "Suburban"} THEN 1
    ELSE 0

one_hot(location, category) == IF location = category THEN 1 ELSE 0

\* keys of input_dict in insertion order, lines 120-126
input_dict_keys ==
    <<"age", "vehicle_age", "location_Rural", "location_Suburban", "location_Urban">>

\* input_dict, lines 120-126: every value is a one-element list
input_dict(age, vehicle_age, location) ==
    [age |-> <<age>>,
     vehicle_age |-> <<vehicle_age>>,
     location_Rural |-> <<one_hot(location, "Rural")>>,
     location_Suburban |-> <<one_hot(location, "Suburban")>>,
     location_Urban |-> <<one_hot(location, "Urban")>>]

\* line 128
model_feature_order_alphabetical ==
    <<"age", "location_Rural", "location_Suburban", "location_Urban", "vehicle_age">>

model_feature_order ==
    <<"age", "vehicle_age", "location_Rural", "location_Suburban", "location_Urban">>

\* pd.DataFrame(dict), line 129: one column per key in key order, one row per
\* list position
DataFrame(keys, dict) ==
    [columns |-> keys,
     rows |-> [i \in 1..Len(dict[keys[1]]) |-> [k \in 1..Len(keys) |-> dict[keys[k]][i]]]]

ColumnIndex(columns, name) == CHOOSE k \in 1..Len(columns) : columns[k] = name

\* df[order], line 130: the named columns in the order asked for
SelectColumns(df, order) ==
    [columns |-> order,
     rows |-> [i \in 1..Len(df.rows) |->
                 [k \in 1..Len(order) |-> df.rows[i][ColumnIndex(df.columns, order[k])]]]]

format_input_data(age, vehicle_age, location) ==
    LET input_df_all == DataFrame(input_dict_keys, input_dict(age, vehicle_age, location))
    IN SelectColumns(input_df_all, model_feature_order)

(* ---------------- the model's predict (line 183) ---------------- *)

\* The unpickled predictor is opaque.  Four behaviours stand for it: one that
\* answers 2.5 for everything, one that weighs each column by position, one
\* that raises on rows flagged urban, one that raises on every row.
PredictRow(kind, row) ==
    IF kind = "const" THEN [raised |-> FALSE, value |-> 2500]
    ELSE IF kind = "linear"
    THEN [raised |-> FALSE,
          value |-> 1250 * row[1] + 4005 * row[2] + 7000 * row[3]
                    + 3000 * row[4] + 11000 * row[5]]
    ELSE IF kind = "picky"
    THEN (IF row[5] = 1 THEN [raised |-> TRUE, value |-> 0]
                        ELSE [raised |-> FALSE, value |-> 99990 + row[1]])
    ELSE [raised |-> TRUE, value |-> 0]

\* model.predict(input_df): one value per row, or an exception; None has no
\* predict at all
predict(model, df) ==
    IF model = NoModel \/ Len(df.columns) # 5
       \/ \E i \in 1..Len(df.rows) : PredictRow(model.kind, df.rows[i]).raised
    THEN [raised |-> TRUE, values |-> <<>>]
    ELSE [raised |-> FALSE,
          values |-> [i \in 1..Len(df.rows) |-> PredictRow(model.kind, df.rows[i]).value]]

(* ---------------- conversion and display (lines 185-197) ---------------- *)

\* round to the nearest multiple of unit, ties to even, as the format
\* specifications .2f and .0f do for a value that is exactly a tie
RoundHalfEven(n, unit) ==
    LET q == n \div unit
        r == n % unit
    IN IF 2 * r < unit THEN q
       ELSE IF 2 * r > unit THEN q + 1
       ELSE IF q % 2 = 0 THEN q ELSE q + 1

\* line 185
to_ugx_of_rounded_usd(usd) == (RoundHalfEven(usd, 10) * 10) * EXCHANGE_RATE

to_ugx(usd) == usd * EXCHANGE_RATE

\* lines 188-198: what the two result cards show
result_cards(usd, ugx) ==
    [shown |-> TRUE, usd |-> usd, ugx |-> ugx,
     usd_text |-> RoundHalfEven(usd, 10), ugx_text |-> RoundHalfEven(ugx, 1000)]

(* ---------------- widgets (lines 147-159) ---------------- *)

\* st.number_input(min_value, max_value, step): the value the widget takes is
\* one inside its limits; anything else is not committed
number_input_no_max(value, min_value, max_value) == value >= min_value

number_input(value, min_value, max_value) == value >= min_value /\ value <= max_value

\* st.selectbox(options), lines 155-158
selectbox(value, options) == \E k \in 1..Len(options) : options[k] = value

\* st.button, line 159: True only in the run its click triggered
st_button(trigger) == trigger = "press"

(* ---------------- main (lines 133-202) ---------------- *)

\* the three input summary cards, lines 169-175
summary_cards_swapped(age, vehicle_age, location) ==
    [shown |-> TRUE, age |-> vehicle_age, vehicle_age |-> age, location |-> location]

summary_cards(age, vehicle_age, location) ==
    [shown |-> TRUE, age |-> age, vehicle_age |-> vehicle_age, location |-> location]

\* if calculate_btn:, line 178
button_gate_always(btn) == TRUE

button_gate(btn) == btn

\* model.predict(input_df)[0], line 183: an exception predict raises is not
\* caught anywhere in main and ends the run
first_prediction_swallowed(p) ==
    IF p.raised THEN [raised |-> FALSE, usd |-> 0]
    ELSE [raised |-> FALSE, usd |-> p.values[1]]

first_prediction(p) ==
    IF p.raised THEN [raised |-> TRUE, usd |-> 0]
    ELSE [raised |-> FALSE, usd |-> p.values[1]]

\* main from line 142 on, once load_model has returned `model`
main_body(model, age, vehicle_age, location, btn) ==
    LET shown == summary_cards(age, vehicle_age, location)
        head  == <<"widgets", "cards">>
    IN IF ~button_gate(btn)
       THEN [outcome |-> "ok", calls |-> head, encArgs |-> NoArgs, input_df |-> NoFrame,
             cards |-> shown, result |-> NoResult, error |-> "none"]
       ELSE LET df == format_input_data(age, vehicle_age, location)
                p  == first_prediction(predict(model, df))
                args == [age |-> age, vehicle_age |-> vehicle_age, location |-> location]
            IN IF p.raised
               THEN [outcome |-> "inference_error",
                     calls |-> head \o <<"format_input_data", "predict">>,
                     encArgs |-> args, input_df |-> df,
                     cards |-> shown, result |-> NoResult, error |-> "exception"]
               ELSE LET prediction_usd == p.usd
                        prediction_ugx == to_ugx(prediction_usd)
                    IN [outcome |-> "ok",
                        calls |-> head \o <<"format_input_data", "predict", "convert", "display">>,
                        encArgs |-> args, input_df |-> df,
                        cards |-> shown,
                        result |-> result_cards(prediction_usd, prediction_ugx),
                        error |-> "none"]

\* one execution of the script with the widget state (age, vehicle_age,
\* location), started by `trigger`
ScriptRun(age, vehicle_age, location, trigger) ==
    LET path == DEFAULT_PATH
        ld   == load_model(path, cache, disk, joblibLoads[path])
        loadCallsSeq == IF ld.executed THEN <<"load_model", "joblib.load">>
                                       ELSE <<"load_model">>
        r    == main_body(ld.model, age, vehicle_age, location, st_button(trigger))
    IN /\ mode = "app"
       /\ runs < MaxRuns
       /\ runs' = runs + 1
       /\ age_input' = age
       /\ vehicle_input' = vehicle_age
       /\ location_input' = location
       /\ cache' = ld.cache
       /\ loadCalls' = [loadCalls EXCEPT ![path] = @ + 1]
       /\ joblibLoads' = IF ld.executed THEN [joblibLoads EXCEPT ![path] = @ + 1]
                                        ELSE joblibLoads
       /\ returned' = IF ld.stopped THEN returned
                      ELSE [returned EXCEPT ![path] = @ \cup {ld.model}]
       /\ failedOnce' = (failedOnce \/ ld.how # "returned")
       /\ IF ld.stopped
          THEN /\ rendered' = FALSE
               /\ calculate_btn' = FALSE
               /\ outcome' = ld.how
               /\ calls' = loadCallsSeq \o <<"st.error", "st.stop">>
               /\ encArgs' = NoArgs
               /\ input_df' = NoFrame
               /\ cards' = NoCards
               /\ result' = NoResult
               /\ error' = ld.how
               /\ hadInferenceError' = hadInferenceError
          ELSE /\ rendered' = TRUE
               /\ calculate_btn' = st_button(trigger)
               /\ outcome' = r.outcome
               /\ calls' = loadCallsSeq \o r.calls
               /\ encArgs' = r.encArgs
               /\ input_df' = r.input_df
               /\ cards' = r.cards
               /\ result' = r.result
               /\ error' = r.error
               /\ hadInferenceError' = (hadInferenceError \/ r.outcome = "inference_error")
       /\ UNCHANGED <<mode, disk>>

(* ---------------- state machine ---------------- *)

Init ==
    /\ mode \in {"app", "import"}
    /\ disk \in [Paths -> Artifacts]
    /\ cache = [p \in Paths |-> NoModel]
    /\ joblibLoads = [p \in Paths |-> 0]
    /\ loadCalls = [p \in Paths |-> 0]
    /\ returned = [p \in Paths |-> {}]
    /\ runs = 0
    /\ rendered = FALSE
    /\ age_input = AGE_DEFAULT
    /\ vehicle_input = VEHICLE_DEFAULT
    /\ location_input = LOCATION_OPTIONS[1]
    /\ calculate_btn = FALSE
    /\ outcome = "none"
    /\ calls = <<>>
    /\ encArgs = NoArgs
    /\ input_df = NoFrame
    /\ cards = NoCards
    /\ result = NoResult
    /\ error = "none"
    /\ failedOnce = FALSE
    /\ hadInferenceError = FALSE

\* the session starts, or the user reruns the script (menu, R key, page
\* reload) without touching a widget
Rerun ==
    /\ mode = "app"
    /\ ScriptRun(age_input, vehicle_input, location_input, "rerun")

\* the user types a value into the Driver Age input
TypeAge ==
    \E v \in TypedAges :
        /\ rendered
        /\ v # age_input
        /\ number_input(v, AGE_MIN, AGE_MAX)
        /\ ScriptRun(v, vehicle_input, location_input, "edit")

\* the user clicks the + or - button of the Driver Age input
StepAge ==
    \E d \in {-STEP, STEP} :
        /\ rendered
        /\ number_input(age_input + d, AGE_MIN, AGE_MAX)
        /\ ScriptRun(age_input + d, vehicle_input, location_input, "edit")

\* the user types a value into the Vehicle Age input
TypeVehicleAge ==
    \E v \in TypedVehicleAges :
        /\ rendered
        /\ v # vehicle_input
        /\ number_input(v, VEHICLE_MIN, VEHICLE_MAX)
        /\ ScriptRun(age_input, v, location_input, "edit")

\* the user clicks the + or - button of the Vehicle Age input
StepVehicleAge ==
    \E d \in {-STEP, STEP} :
        /\ rendered
        /\ number_input(vehicle_input + d, VEHICLE_MIN, VEHICLE_MAX)
        /\ ScriptRun(age_input, vehicle_input + d, location_input, "edit")

\* the user picks another garaging location
SelectLocation ==
    \E l \in DirectLocations :
        /\ rendered
        /\ l # location_input
        /\ selectbox(l, LOCATION_OPTIONS)
        /\ ScriptRun(age_input, vehicle_input, l, "edit")

\* the user presses Calculate Premium
PressButton ==
    /\ rendered
    /\ ScriptRun(age_input, vehicle_input, location_input, "press")

\* some importer of the module calls format_input_data itself
DirectEncode ==
    \E a \in DirectAges, v \in DirectVehicleAges, l \in DirectLocations :
        /\ mode = "import"
        /\ encArgs' = [age |-> a, vehicle_age |-> v, location |-> l]
        /\ input_df' = format_input_data(a, v, l)
        /\ calls' = <<"format_input_data">>
        /\ outcome' = "direct"
        /\ UNCHANGED <<mode, disk, cache, joblibLoads, loadCalls, returned, runs, rendered,
                       age_input, vehicle_input, location_input, calculate_btn,
                       cards, result, error, failedOnce, hadInferenceError>>

Next ==
    \/ Rerun
    \/ TypeAge
    \/ StepAge
    \/ TypeVehicleAge
    \/ StepVehicleAge
    \/ SelectLocation
    \/ PressButton
    \/ DirectEncode

Spec == Init /\ [][Next]_vars

(* ---------------- vocabulary of the properties ---------------- *)

KnownLocations == {"Urban", "Suburban", "Rural"}

ValidInput(a) ==
    /\ a.age \in AGE_MIN..AGE_MAX
    /\ a.vehicle_age \in VEHICLE_MIN..VEHICLE_MAX
    /\ a.location \in KnownLocations

Indicator(b) == IF b THEN 1 ELSE 0

\* the row the feature schema prescribes for (age, vehicle_age, location)
SchemaRow(age, vehicle_age, location) ==
    <<age, vehicle_age, Indicator(location = "Rural"),
      Indicator(location = "Suburban"), Indicator(location = "Urban")>>

\* the calls of a run that belong to a submission, in the order made
SubmissionCalls ==
    SelectSeq(calls, LAMBDA c : c \in {"format_input_data", "predict", "convert", "display"})

Called(name) == \E k \in 1..Len(calls) : calls[k] = name

Widgets == [age |-> age_input, vehicle_age |-> vehicle_input, location |-> location_input]

(* ---------------- C1 ---------------- *)

\* C1: for every valid input, format_input_data returns a single row whose five
\* columns are, in this order, age, vehicle_age, location_Rural,
\* location_Suburban, location_Urban; age and vehicle_age are the inputs
\* unchanged, each location column is 1 exactly when the location is that
\* category, so exactly one of the three is 1; (40, 5, Urban) gives [40, 5, 0, 0, 1].
C1_EncodeValid ==
    (encArgs # NoArgs /\ ValidInput(encArgs)) =>
        /\ input_df.columns = <<"age", "vehicle_age", "location_Rural",
                                "location_Suburban", "location_Urban">>
        /\ Len(input_df.rows) = 1
        /\ LET row == input_df.rows[1] IN
            /\ Len(row) = 5
            /\ row[1] = encArgs.age
            /\ row[2] = encArgs.vehicle_age
            /\ row[3] = Indicator(encArgs.location = "Rural")
            /\ row[4] = Indicator(encArgs.location = "Suburban")
            /\ row[5] = Indicator(encArgs.location = "Urban")
            /\ row[3] + row[4] + row[5] = 1
            /\ (encArgs = [age |-> 40, vehicle_age |-> 5, location |-> "Urban"]
                    => row = <<40, 5, 0, 0, 1>>)

C1_Witness ==
    /\ mode = "app"
    /\ encArgs = [age |-> 40, vehicle_age |-> 5, location |-> "Urban"]
    /\ input_df.rows = << <<40, 5, 0, 0, 1>> >>

(* ---------------- C2 ---------------- *)

\* C2: whenever a submission shows a premium, the USD premium is the first
\* element of what the model's predict returned for the single-row batch that
\* format_input_data built from the submitted inputs, and the UGX premium is
\* that unrounded USD value times 3700; a model that always predicts 2.5 gives
\* usd 2.5 and ugx 9250 for (40, 5, Suburban).
C2_Premium ==
    result.shown =>
        /\ encArgs = Widgets
        /\ input_df.rows = << SchemaRow(age_input, vehicle_input, location_input) >>
        /\ LET kind == cache[DEFAULT_PATH].kind
               row  == input_df.rows[1]
           IN /\ kind \in {"const", "linear", "picky"}
              /\ kind = "const" => result.usd = 2500
              /\ kind = "linear" =>
                    result.usd = 1250 * age_input + 4005 * vehicle_input
                                 + 7000 * row[3] + 3000 * row[4] + 11000 * row[5]
              /\ kind = "picky" => result.usd = 99990 + age_input
              /\ result.ugx = result.usd * 3700
              /\ (kind = "const"
                  /\ encArgs = [age |-> 40, vehicle_age |-> 5, location |-> "Suburban"])
                    => (result.usd = 2500 /\ result.ugx = 9250000)

C2_Witness ==
    /\ result.shown
    /\ cache[DEFAULT_PATH].kind = "const"
    /\ encArgs = [age |-> 40, vehicle_age |-> 5, location |-> "Suburban"]
    /\ result.usd = 2500
    /\ result.ugx = 9250000

(* ---------------- C3 ---------------- *)

C4_MissingFile ==
    (mode = "app" /\ runs >= 1 /\ disk[DEFAULT_PATH] = "missing") =>
        /\ outcome = "not_found"
        /\ error = "not_found"
        /\ returned[DEFAULT_PATH] = {}
        /\ cache[DEFAULT_PATH] = NoModel
        /\ ~rendered
        /\ ~cards.shown
        /\ ~result.shown
        /\ ~Called("widgets")
        /\ ~Called("format_input_data")
        /\ ~Called("predict")
        /\ calls = <<"load_model", "joblib.load", "st.error", "st.stop">>

C4_Witness ==
    /\ disk[DEFAULT_PATH] = "missing"
    /\ runs >= 2
    /\ outcome = "not_found"
    /\ error = "not_found"

(* ---------------- C5 ---------------- *)

\* C5 as claimed: once load_model has failed, no later step attempts the load
\* again, accepts an interaction or produces a prediction.
C5_NeverRetried ==
    [][failedOnce =>
          /\ joblibLoads' = joblibLoads
          /\ loadCalls' = loadCalls
          /\ ~rendered'
          /\ ~result'.shown]_vars

\* C5 as amended: a load failure ends the script run it happens in: that run
\* executes joblib.load once, renders no widget and produces no prediction.
\* The failure is not cached, so each later script run calls load_model and
\* executes joblib.load once more, and ends the same way.
C5_FailureEndsEachRun ==
    [][(failedOnce' /\ runs' = runs + 1) =>
          /\ loadCalls'[DEFAULT_PATH] = loadCalls[DEFAULT_PATH] + 1
          /\ joblibLoads'[DEFAULT_PATH] = joblibLoads[DEFAULT_PATH] + 1
          /\ outcome' \in {"not_found", "load_error"}
          /\ error' = outcome'
          /\ cache'[DEFAULT_PATH] = NoModel
          /\ ~rendered'
          /\ ~cards'.shown
          /\ ~result'.shown
          /\ calls' = <<"load_model", "joblib.load", "st.error", "st.stop">>]_vars

C5_Witness ==
    /\ failedOnce
    /\ outcome = "load_error"
    /\ loadCalls[DEFAULT_PATH] >= 2
    /\ joblibLoads[DEFAULT_PATH] = loadCalls[DEFAULT_PATH]

(* ---------------- C6 ---------------- *)

\* C6: a submission whose row the model's predict rejects fails alone: the
\* exception is shown, no USD or UGX result is shown, the cached model is still
\* the instance that was loaded, the widgets stay on the page and another
\* interaction can follow; a submission the model accepts shows its result
\* whether or not an earlier one was rejected.
C6_InferenceErrorConfined ==
    (mode = "app" /\ calculate_btn) =>
        LET m  == cache[DEFAULT_PATH]
            pr == PredictRow(m.kind, SchemaRow(age_input, vehicle_input, location_input))
        IN /\ m = [kind |-> disk[DEFAULT_PATH], id |-> 1]
           /\ returned[DEFAULT_PATH] = {m}
           /\ rendered
           /\ cards.shown
           /\ pr.raised =>
                /\ outcome = "inference_error"
                /\ error = "exception"
                /\ ~result.shown
                /\ hadInferenceError
                /\ (runs < MaxRuns => (ENABLED PressButton /\ ENABLED SelectLocation))
           /\ ~pr.raised =>
                /\ outcome = "ok"
                /\ error = "none"
                /\ result.shown
                /\ result.usd = pr.value

C6_Witness ==
    /\ hadInferenceError
    /\ calculate_btn
    /\ outcome = "ok"
    /\ result.shown
    /\ cache[DEFAULT_PATH].kind = "picky"

(* ---------------- C7 ---------------- *)

\* C7 as claimed: whatever format_input_data is called with lies in the ranges:
\* main passes only such values and the function accepts no others.
C7_OnlyValidAccepted ==
    (encArgs # NoArgs /\ input_df # NoFrame) => ValidInput(encArgs)

\* C7 as amended: in the application the widget values, and so the inputs main
\* passes to format_input_data, satisfy age in 18..80, vehicle_age in 1..20
\* and location in {Urban, Suburban, Rural}; format_input_data itself checks
\* nothing: called directly it returns a row for any values.
C7_WidgetsBoundInputs ==
    /\ mode = "app" =>
          /\ ValidInput(Widgets)
          /\ encArgs # NoArgs => (encArgs = Widgets /\ ValidInput(encArgs))
    /\ (mode = "import" /\ encArgs # NoArgs) =>
          /\ Len(input_df.rows) = 1
          /\ Len(input_df.rows[1]) = 5

C7_Witness ==
    /\ mode = "app"
    /\ encArgs # NoArgs
    /\ encArgs.age = AGE_MAX
    /\ encArgs.vehicle_age = VEHICLE_MAX

(* ---------------- C8 ---------------- *)

\* C8 as claimed: a run without a press calls neither format_input_data nor
\* predict, and every run with a press runs encode, predict, convert, display
\* in this order.
C8_EveryPressRunsAll ==
    mode = "app" =>
        /\ ~calculate_btn => SubmissionCalls = <<>>
        /\ calculate_btn =>
              SubmissionCalls = <<"format_input_data", "predict", "convert", "display">>

\* C8 as amended: a run without a press calls neither format_input_data nor
\* predict; a run with a press on which predict returns runs encode, predict,
\* convert, display in this order within the run; a run with a press on which
\* predict raises ends after encode, predict, with no conversion and no display.
C8_PressRunsInOrder ==
    mode = "app" =>
        /\ ~calculate_btn => SubmissionCalls = <<>>
        /\ (calculate_btn /\ outcome = "ok") =>
              /\ SubmissionCalls = <<"format_input_data", "predict", "convert", "display">>
              /\ result.shown
        /\ (calculate_btn /\ outcome # "ok") =>
              /\ outcome = "inference_error"
              /\ SubmissionCalls = <<"format_input_data", "predict">>
              /\ ~result.shown

C8_Witness ==
    /\ calculate_btn
    /\ calls = <<"load_model", "widgets", "cards",
                 "format_input_data", "predict", "convert", "display">>

(* ---------------- C9 ---------------- *)

\* C9: called with a location that is none of Urban, Suburban, Rural,
\* format_input_data raises nothing and returns a row whose three location
\* columns are all 0 and whose first two columns are age and vehicle_age.
C9_UnknownLocation ==
    (encArgs # NoArgs /\ encArgs.location \notin KnownLocations) =>
        /\ Len(input_df.rows) = 1
        /\ input_df.rows[1] = <<encArgs.age, encArgs.vehicle_age, 0, 0, 0>>

C9_Witness ==
    /\ encArgs = [age |-> AGE_DEFAULT, vehicle_age |-> VEHICLE_DEFAULT, location |-> "Coastal"]
    /\ input_df.rows = << <<40, 5, 0, 0, 0>> >>

(* ---------------- C10 ---------------- *)

\* C10: a premium on screen was computed from exactly the age, vehicle_age and
\* location that the summary cards of the same run show, which are the current
\* widget values; a run that no press triggered shows no result.
C10_ResultMatchesCards ==
    mode = "app" =>
        /\ cards.shown => cards = [shown |-> TRUE, age |-> age_input,
                                   vehicle_age |-> vehicle_input,
                                   location |-> location_input]
        /\ ~calculate_btn => ~result.shown
        /\ result.shown =>
              /\ cards.shown
              /\ LET pr == PredictRow(disk[DEFAULT_PATH],
                                      SchemaRow(cards.age, cards.vehicle_age, cards.location))
                 IN /\ ~pr.raised
                    /\ result.usd = pr.value
                    /\ result.ugx = pr.value * EXCHANGE_RATE
                    /\ result.usd_text = RoundHalfEven(pr.value, 10)
                    /\ result.ugx_text = RoundHalfEven(pr.value * EXCHANGE_RATE, 1000)

C10_Witness ==
    /\ result.shown
    /\ cards.age = AGE_MIN
    /\ cards.location = "Rural"
    /\ runs >= 4

====
